---------------------------- MODULE Spec2Model ----------------------------
(***************************************************************************)
(* A model of the file-backed task tracker: the task entity                *)
(* (internal/model/task.go), the identifier generator (internal/id/id.go), *)
(* the persistence store (package store) and the command layer (cmd).      *)
(*                                                                         *)
(* Representation:                                                         *)
(*  - a Go pointer or a nullable JSON value is a sequence of length <= 1   *)
(*    (<<>> is nil / null, <<v>> is a present value v);                    *)
(*  - a time.Time is a number of sub-second ticks; an RFC3339 string is    *)
(*    the record [rfc3339 |-> whole seconds];                              *)
(*  - the backing file is [exists, fmt, recs]: fmt "array" is one JSON     *)
(*    array of objects, fmt "jsonl" is one object per line (no line at     *)
(*    all is the zero-byte file).                                          *)
(***************************************************************************)
EXTENDS Integers, Sequences, FiniteSets, TLC

VARIABLES
    dir,     \* the .task directory exists
    file,    \* the backing file .task/task.json
    clock,   \* the wall clock, in ticks
    last,    \* what the last operation was given and what it returned
    procs,   \* the concurrent tool processes of the race specification
    mem      \* the task a caller of package model holds in memory (<<>>: none)

vars == <<dir, file, clock, last, procs, mem>>

---------------------------------------------------------------------------
(* Small helpers over sequences.                                           *)

Range(s) == {s[i] : i \in 1..Len(s)}

SeqsUpTo(S, n) == UNION {[1..k -> S] : k \in 0..n}

RECURSIVE Filter(_, _)
\* the subsequence of s whose elements are in the set keep
Filter(s, keep) ==
    IF s = <<>> THEN <<>>
    ELSE IF Head(s) \in keep THEN <<Head(s)>> \o Filter(Tail(s), keep)
         ELSE Filter(Tail(s), keep)


---------------------------------------------------------------------------
(* internal/model/task.go: the closed enumerations.                        *)

StatusTodo == "todo"
StatusProgress == "progress"
StatusBlocked == "blocked"
StatusAbandon == "abandon"
StatusDone == "done"

AllStatuses ==
    <<StatusTodo, StatusProgress, StatusBlocked, StatusAbandon, StatusDone>>

StatusIsValid(s) ==
    s \in {StatusTodo, StatusProgress, StatusBlocked, StatusAbandon, StatusDone}

ParseStatus(s) ==
    IF ~StatusIsValid(s) THEN [err |-> "InvalidEnum", val |-> ""]
    ELSE [err |-> "", val |-> s]

TypeTask == "task"
TypeBug == "bug"
TypeFeature == "feature"

AllTaskTypes == <<TypeTask, TypeBug, TypeFeature>>

TaskTypeIsValid(t) == t \in {TypeTask, TypeBug, TypeFeature}

ParseTaskType(s) ==
    IF ~TaskTypeIsValid(s) THEN [err |-> "InvalidEnum", val |-> ""]
    ELSE [err |-> "", val |-> s]

---------------------------------------------------------------------------
(* internal/model/task.go: the entity and its mutators.  Each takes the    *)
(* current time now (time.Now().UTC()) as a parameter.                     *)

Note(noteID, now, content) ==
    [id |-> noteID, created_at |-> now, content |-> content]

NewTaskZeroUpdated(id, title, taskType, now) ==
    [id |-> id, created_at |-> now, updated_at |-> 0, title |-> title,
     description |-> <<>>, type |-> taskType, status |-> StatusTodo,
     labels |-> <<>>, notes |-> <<>>]

NewTask(id, title, taskType, now) ==
    [id |-> id, created_at |-> now, updated_at |-> now, title |-> title,
     description |-> <<>>, type |-> taskType, status |-> StatusTodo,
     labels |-> <<>>, notes |-> <<>>]

SetDescription(t, desc, now) ==
    [t EXCEPT !.description = <<desc>>, !.updated_at = now]

\* desc is a *string: <<>> clears the description
SetDescriptionValue(t, desc, now) ==
    [t EXCEPT !.description = desc, !.updated_at = now]

HasLabel(t, label) == \E i \in 1..Len(t.labels) : t.labels[i] = label

AddLabel(t, label, now) ==
    IF \E i \in 1..Len(t.labels) : t.labels[i] = label THEN t
    ELSE [t EXCEPT !.labels = Append(t.labels, label), !.updated_at = now]

SetLabels(t, labels, now) ==
    [t EXCEPT !.labels = labels, !.updated_at = now]

SetStatusStampsFirst(t, status, now) ==
    IF ~StatusIsValid(status)
    THEN [err |-> "InvalidEnum", task |-> [t EXCEPT !.updated_at = now]]
    ELSE [err |-> "",
          task |-> [t EXCEPT !.status = status, !.updated_at = now]]

\* returns the error and the task as the call leaves it
SetStatus(t, status, now) ==
    IF ~StatusIsValid(status) THEN [err |-> "InvalidEnum", task |-> t]
    ELSE [err |-> "",
          task |-> [t EXCEPT !.status = status, !.updated_at = now]]

SetType(t, taskType, now) ==
    IF ~TaskTypeIsValid(taskType) THEN [err |-> "InvalidEnum", task |-> t]
    ELSE [err |-> "",
          task |-> [t EXCEPT !.type = taskType, !.updated_at = now]]

SetTitleKeepsTime(t, title, now) ==
    [t EXCEPT !.title = title]

SetTitle(t, title, now) ==
    [t EXCEPT !.title = title, !.updated_at = now]

AddNote(t, noteID, content, now) ==
    [t EXCEPT !.notes = Append(t.notes, Note(noteID, now, content)),
              !.updated_at = now]

---------------------------------------------------------------------------
(* internal/model/task.go: the JSON form of a task.                        *)

TicksPerSecond == 2

\* t.Format(time.RFC3339): second precision, the sub-second part is dropped
FormatRFC3339(t) == [rfc3339 |-> t \div TicksPerSecond]

\* time.Parse(time.RFC3339, s)
ParseRFC3339(s) == s.rfc3339 * TicksPerSecond

NoteMarshalJSON(n) ==
    [id |-> n.id, created_at |-> FormatRFC3339(n.created_at),
     content |-> n.content]

NoteUnmarshalJSON(j) ==
    [id |-> j.id, created_at |-> ParseRFC3339(j.created_at),
     content |-> j.content]

TaskMarshalJSONNoDescription(t) ==
    [id |-> t.id,
     created_at |-> FormatRFC3339(t.created_at),
     updated_at |-> FormatRFC3339(t.updated_at),
     title |-> t.title,
     description |-> <<>>,
     type |-> t.type,
     status |-> t.status,
     labels |-> <<t.labels>>,
     notes |-> <<[i \in 1..Len(t.notes) |-> NoteMarshalJSON(t.notes[i])]>>]

\* labels and notes are written as JSON arrays (an in-memory slice is never
\* nil here: NewTask, Load and the commands all build non-nil slices)
TaskMarshalJSON(t) ==
    [id |-> t.id,
     created_at |-> FormatRFC3339(t.created_at),
     updated_at |-> FormatRFC3339(t.updated_at),
     title |-> t.title,
     description |-> t.description,
     type |-> t.type,
     status |-> t.status,
     labels |-> <<t.labels>>,
     notes |-> <<[i \in 1..Len(t.notes) |-> NoteMarshalJSON(t.notes[i])]>>]

\* "labels": null and "notes": null become empty slices; type and status
\* are taken as the strings they are
TaskUnmarshalJSON(j) ==
    [id |-> j.id,
     created_at |-> ParseRFC3339(j.created_at),
     updated_at |-> ParseRFC3339(j.updated_at),
     title |-> j.title,
     description |-> j.description,
     type |-> j.type,
     status |-> j.status,
     labels |-> IF j.labels = <<>> THEN <<>> ELSE j.labels[1],
     notes |-> IF j.notes = <<>> THEN <<>>
               ELSE [i \in 1..Len(j.notes[1]) |->
                        NoteUnmarshalJSON(j.notes[1][i])]]

---------------------------------------------------------------------------
(* internal/id/id.go: the identifier generator.  An identifier is drawn    *)
(* from the random source; Short3 stands for the 3-character identifiers   *)
(* and Long4 for the 4-character ones (the two never coincide).            *)

NumShort == 2
NumLong == 1

ShortPool == <<"aaa", "bbb", "ccc", "ddd">>
LongPool == <<"aaaa", "bbbb", "cccc">>

Short3 == {ShortPool[i] : i \in 1..NumShort}
Long4 == {LongPool[i] : i \in 1..NumLong}

maxAttempts == 100

\* generateWithLength(length): every string of that length may come out
generateWithLength(length) ==
    IF length = 3 THEN Short3 ELSE IF length = 4 THEN Long4 ELSE {}

Generate == generateWithLength(3)

\* the suffix of a note identifier is a 3-character identifier too
GenerateNoteID(taskID) == {<<taskID, "-", s>> : s \in generateWithLength(3)}

\* The identifiers GenerateUnique(existing) can return: an attempt that is
\* not in existing is returned at once; all maxAttempts attempts can be
\* members of existing only if some 3-character identifier is, and then
\* the 4-character fallback is returned without looking at existing.
GenerateUnique(existing) ==
    (Generate \ existing) \cup
    (IF maxAttempts > 0 /\ Generate \cap existing = {}
     THEN {} ELSE generateWithLength(4))

---------------------------------------------------------------------------
(* package store: the backing file.                                        *)

NoFile == [exists |-> FALSE, fmt |-> "none", recs |-> <<>>]

\* json.MarshalIndent(tasks, "", "  "): one JSON array
MarshalIndent(tasks) ==
    [exists |-> TRUE, fmt |-> "array",
     recs |-> [i \in 1..Len(tasks) |-> TaskMarshalJSON(tasks[i])]]

\* the number of non-blank lines that hold one JSON object each
JSONLines(f) == IF f.exists /\ f.fmt = "jsonl" THEN Len(f.recs) ELSE 0

IsJSONL(f) == f.exists /\ f.fmt = "jsonl"

IsInitialized(d, f) == f.exists

ReadFileCreating(f) ==
    [err |-> "", file |-> [exists |-> TRUE, fmt |-> "jsonl", recs |-> <<>>]]

\* os.ReadFile(s.taskFile()): the only access of Load, and so of every
\* query, to the file; it leaves the file as it is
ReadFile(f) ==
    [err |-> IF f.exists THEN "" ELSE "NotExist", file |-> f]

LoadMissingAsEmpty(f) ==
    IF ~f.exists THEN [err |-> "", tasks |-> <<>>]
    ELSE IF f.fmt # "array" THEN [err |-> "ParseFailure", tasks |-> <<>>]
    ELSE [err |-> "",
          tasks |-> [i \in 1..Len(f.recs) |-> TaskUnmarshalJSON(f.recs[i])]]

\* json.Unmarshal(data, &tasks) takes one JSON array only: the zero-byte
\* file, a single object and several objects on lines are all errors
Load(f) ==
    IF ~f.exists THEN [err |-> "NotInitialized", tasks |-> <<>>]
    ELSE IF f.fmt # "array" THEN [err |-> "ParseFailure", tasks |-> <<>>]
    ELSE [err |-> "",
          tasks |-> [i \in 1..Len(f.recs) |-> TaskUnmarshalJSON(f.recs[i])]]

SaveAppending(d, f, tasks, wr) ==
    IF d /\ wr
    THEN [err |-> "",
          file |-> [exists |-> TRUE, fmt |-> "array",
                    recs |-> f.recs \o MarshalIndent(tasks).recs]]
    ELSE [err |-> "WriteError", file |-> f]

\* wr is the outcome of os.WriteFile; it fails anyway without the directory
Save(d, f, tasks, wr) ==
    IF d /\ wr THEN [err |-> "", file |-> MarshalIndent(tasks)]
    ELSE [err |-> "WriteError", file |-> f]

InitOverwrites(d, f, wr) ==
    IF wr THEN [err |-> "", dir |-> TRUE, file |-> MarshalIndent(<<>>)]
    ELSE [err |-> "WriteError", dir |-> d, file |-> f]

InitDirOnly(d, f, wr) ==
    IF d THEN [err |-> "AlreadyInitialized", dir |-> d, file |-> f]
    ELSE [err |-> "", dir |-> TRUE, file |-> f]

InitNoRollback(d, f, wr) ==
    IF d THEN [err |-> "AlreadyInitialized", dir |-> d, file |-> f]
    ELSE IF ~wr THEN [err |-> "WriteError", dir |-> TRUE, file |-> NoFile]
    ELSE [err |-> "", dir |-> TRUE, file |-> MarshalIndent(<<>>)]

Init(d, f, wr) ==
    IF d THEN [err |-> "AlreadyInitialized", dir |-> d, file |-> f]
    ELSE LET s == Save(TRUE, f, <<>>, wr) IN
         IF s.err # ""
         THEN [err |-> s.err, dir |-> FALSE, file |-> NoFile]
         ELSE [err |-> "", dir |-> TRUE, file |-> s.file]

\* the first task with that id, as a pointer (<<>> is nil)
FindByID(f, id) ==
    LET l == Load(f) IN
    IF l.err # "" THEN [err |-> l.err, found |-> <<>>]
    ELSE LET hits == {i \in 1..Len(l.tasks) : l.tasks[i].id = id} IN
         IF hits = {} THEN [err |-> "", found |-> <<>>]
         ELSE [err |-> "",
               found |-> <<l.tasks[CHOOSE i \in hits : \A k \in hits : i <= k]>>]

Add(d, f, task, wr) ==
    LET l == Load(f) IN
    IF l.err # "" THEN [err |-> l.err, file |-> f]
    ELSE Save(d, f, Append(l.tasks, task), wr)

UpdateMovesToEnd(d, f, task, wr) ==
    LET l == Load(f) IN
    IF l.err # "" THEN [err |-> l.err, file |-> f]
    ELSE IF \A i \in 1..Len(l.tasks) : l.tasks[i].id # task.id
         THEN [err |-> "NotFound", file |-> f]
         ELSE LET others == SelectSeq(l.tasks, LAMBDA t : t.id # task.id) IN
              Save(d, f, Append(others, task), wr)

Update(d, f, task, wr) ==
    LET l == Load(f) IN
    IF l.err # "" THEN [err |-> l.err, file |-> f]
    ELSE LET hits == {i \in 1..Len(l.tasks) : l.tasks[i].id = task.id} IN
         IF hits = {} THEN [err |-> "NotFound", file |-> f]
         ELSE LET first == CHOOSE i \in hits : \A k \in hits : i <= k IN
              Save(d, f, [l.tasks EXCEPT ![first] = task], wr)

GetExistingIDs(f) ==
    LET l == Load(f) IN
    IF l.err # "" THEN [err |-> l.err, ids |-> {}]
    ELSE [err |-> "", ids |-> {l.tasks[i].id : i \in 1..Len(l.tasks)}]

\* the less function of ListSorted: tasks[i].UpdatedAt.After(tasks[j].UpdatedAt)
After(a, b) == a.updated_at > b.updated_at

RECURSIVE InsertBack(_, _)
\* one pass of the insertion sort: x moves towards the front while it is
\* less than the element before it
InsertBack(sorted, x) ==
    IF sorted = <<>> THEN <<x>>
    ELSE LET n == Len(sorted) IN
         IF After(x, sorted[n])
         THEN Append(InsertBack(SubSeq(sorted, 1, n - 1), x), sorted[n])
         ELSE Append(sorted, x)

RECURSIVE SortSlice(_)
\* sort.Slice on a short slice is an insertion sort
SortSlice(tasks) ==
    IF tasks = <<>> THEN <<>>
    ELSE LET n == Len(tasks) IN
         InsertBack(SortSlice(SubSeq(tasks, 1, n - 1)), tasks[n])

\* sort.Slice runs pdqsort_func: a slice of at most maxInsertion elements
\* is insertion-sorted, a longer one is partitioned around a pivot first
maxInsertion == 12

Swap(s, i, j) == [s EXCEPT ![i] = s[j], ![j] = s[i]]

\* order2_func: the two positions in order, and whether they were swapped
order2(s, x, y) == IF After(s[y], s[x]) THEN <<y, x, 1>> ELSE <<x, y, 0>>

\* choosePivot_func on 8 to 49 elements: the median of three positions;
\* sorted is the increasing hint (no swap was counted).  Positions count
\* from 1 here, from 0 in Go.
choosePivot(s) ==
    LET l == Len(s)
        i == 1 + (l \div 4) * 1
        j == 1 + (l \div 4) * 2
        k == 1 + (l \div 4) * 3
        o1 == order2(s, i, j)
        o2 == order2(s, o1[2], k)
        o3 == order2(s, o1[1], o2[1])
    IN [pivot |-> o3[2], sorted |-> o1[3] + o2[3] + o3[3] = 0]

\* partialInsertionSort_func on fewer than 50 elements moves nothing: it
\* reports whether the slice is in order already
partialInsertionSort(s) ==
    \A i \in 2..Len(s) : ~After(s[i], s[i - 1])

RECURSIVE ScanUp(_, _, _, _)
\* for i <= j && less(i, a) { i++ }
ScanUp(s, i, j, a) ==
    IF i <= j /\ After(s[i], s[a]) THEN ScanUp(s, i + 1, j, a) ELSE i

RECURSIVE ScanDown(_, _, _, _)
\* for i <= j && !less(j, a) { j-- }
ScanDown(s, i, j, a) ==
    IF i <= j /\ ~After(s[j], s[a]) THEN ScanDown(s, i, j - 1, a) ELSE j

RECURSIVE PartitionLoop(_, _, _, _)
PartitionLoop(s, i0, j0, a) ==
    LET i == ScanUp(s, i0, j0, a)
        j == ScanDown(s, i, j0, a) IN
    IF i > j THEN [data |-> Swap(s, j, a), mid |-> j]
    ELSE PartitionLoop(Swap(s, i, j), i + 1, j - 1, a)

\* partition_func over the whole slice: the pivot goes to the front, the
\* elements less than it are gathered before mid, the others after
partition(s, pivot) ==
    LET a == 1
        s1 == Swap(s, a, pivot)
        i == ScanUp(s1, a + 1, Len(s), a)
        j == ScanDown(s1, i, Len(s), a) IN
    IF i > j THEN [data |-> Swap(s1, j, a), mid |-> j]
    ELSE PartitionLoop(Swap(s1, i, j), i + 1, j - 1, a)

\* pdqsort_func on a slice of at most maxInsertion + 1 elements: after one
\* partition both parts are short enough for the insertion sort
pdqsort(s) ==
    IF Len(s) <= maxInsertion THEN SortSlice(s)
    ELSE LET cp == choosePivot(s) IN
         IF cp.sorted /\ partialInsertionSort(s) THEN s
         ELSE LET p == partition(s, cp.pivot) IN
              SortSlice(SubSeq(p.data, 1, p.mid - 1))
                 \o <<p.data[p.mid]>>
                 \o SortSlice(SubSeq(p.data, p.mid + 1, Len(s)))

ListSortedOldestFirst(f) ==
    LET l == Load(f) IN
    IF l.err # "" THEN [err |-> l.err, tasks |-> <<>>]
    ELSE LET s == SortSlice(l.tasks) IN
         [err |-> "", tasks |-> [i \in 1..Len(s) |-> s[Len(s) + 1 - i]]]

ListSorted(f) ==
    LET l == Load(f) IN
    IF l.err # "" THEN [err |-> l.err, tasks |-> <<>>]
    ELSE [err |-> "", tasks |-> pdqsort(l.tasks)]

\* a Filter holds three pointers: <<>> is nil
NoFilter == [status |-> <<>>, type |-> <<>>, label |-> <<>>]

RECURSIVE FilterLoop(_, _)
FilterLoop(tasks, filter) ==
    IF tasks = <<>> THEN <<>>
    ELSE LET t == Head(tasks)
             rest == FilterLoop(Tail(tasks), filter) IN
         IF filter.status # <<>> /\ t.status # filter.status[1] THEN rest
         ELSE IF filter.type # <<>> /\ t.type # filter.type[1] THEN rest
         ELSE IF filter.label # <<>> /\ ~HasLabel(t, filter.label[1]) THEN rest
         ELSE <<t>> \o rest

RECURSIVE FilterLoopAny(_, _)
FilterLoopAny(tasks, filter) ==
    IF tasks = <<>> THEN <<>>
    ELSE LET t == Head(tasks)
             rest == FilterLoopAny(Tail(tasks), filter) IN
         IF \/ filter.status # <<>> /\ t.status = filter.status[1]
            \/ filter.type # <<>> /\ t.type = filter.type[1]
            \/ filter.label # <<>> /\ HasLabel(t, filter.label[1])
         THEN <<t>> \o rest
         ELSE rest

ListFilteredAny(f, filter) ==
    LET l == ListSorted(f) IN
    IF l.err # "" THEN [err |-> l.err, tasks |-> <<>>]
    ELSE IF filter.status = <<>> /\ filter.type = <<>> /\ filter.label = <<>>
         THEN [err |-> "", tasks |-> l.tasks]
         ELSE [err |-> "", tasks |-> FilterLoopAny(l.tasks, filter)]

ListFiltered(f, filter) ==
    LET l == ListSorted(f) IN
    IF l.err # "" THEN [err |-> l.err, tasks |-> <<>>]
    ELSE IF filter.status = <<>> /\ filter.type = <<>> /\ filter.label = <<>>
         THEN [err |-> "", tasks |-> l.tasks]
         ELSE [err |-> "", tasks |-> FilterLoop(l.tasks, filter)]

RECURSIVE Without(_, _)
\* the loop of Delete: every task whose id is not id, in order
Without(tasks, id) ==
    IF tasks = <<>> THEN <<>>
    ELSE IF Head(tasks).id = id THEN Without(Tail(tasks), id)
         ELSE <<Head(tasks)>> \o Without(Tail(tasks), id)

\* make([]model.Task, 0, len(tasks)-1) panics when no task is loaded
Delete(d, f, id, wr) ==
    LET l == Load(f) IN
    IF l.err # "" THEN [err |-> l.err, file |-> f]
    ELSE IF Len(l.tasks) - 1 < 0 THEN [err |-> "Panic", file |-> f]
    ELSE IF \A i \in 1..Len(l.tasks) : l.tasks[i].id # id
         THEN [err |-> "NotFound", file |-> f]
         ELSE Save(d, f, Without(l.tasks, id), wr)

IsClosed(t) == t.status = StatusDone \/ t.status = StatusAbandon

RECURSIVE Open(_)
\* the loop of Clean: every task that is not closed, in order
Open(tasks) ==
    IF tasks = <<>> THEN <<>>
    ELSE IF IsClosed(Head(tasks)) THEN Open(Tail(tasks))
         ELSE <<Head(tasks)>> \o Open(Tail(tasks))

CleanDoneOnly(d, f, wr) ==
    LET l == Load(f) IN
    IF l.err # "" THEN [err |-> l.err, deleted |-> 0, file |-> f]
    ELSE LET S == {i \in 1..Len(l.tasks) : l.tasks[i].status = StatusDone}
             keep == {l.tasks[i] : i \in (1..Len(l.tasks)) \ S}
             newTasks == Filter(l.tasks, keep)
             deleted == Cardinality(S) IN
         IF deleted = 0 THEN [err |-> "", deleted |-> 0, file |-> f]
         ELSE LET s == Save(d, f, newTasks, wr) IN
              [err |-> s.err, deleted |-> deleted, file |-> s.file]

CleanAlwaysSaves(d, f, wr) ==
    LET l == Load(f) IN
    IF l.err # "" THEN [err |-> l.err, deleted |-> 0, file |-> f]
    ELSE LET newTasks == Open(l.tasks)
             deleted == Len(l.tasks) - Len(newTasks)
             s == Save(d, f, newTasks, wr) IN
         [err |-> s.err, deleted |-> deleted, file |-> s.file]

Clean(d, f, wr) ==
    LET l == Load(f) IN
    IF l.err # "" THEN [err |-> l.err, deleted |-> 0, file |-> f]
    ELSE LET newTasks == Open(l.tasks)
             deleted == Len(l.tasks) - Len(newTasks) IN
         IF deleted = 0 THEN [err |-> "", deleted |-> 0, file |-> f]
         ELSE LET s == Save(d, f, newTasks, wr) IN
              [err |-> s.err, deleted |-> deleted, file |-> s.file]


---------------------------------------------------------------------------
(* package cmd: the commands.  Each operator is one run of the tool: it    *)
(* takes the directory and the file as they are, the parsed command line,  *)
(* the identifier the random source yields and the time, and returns the   *)
(* error and the directory and file as the run leaves them.                *)

\* strings.TrimSpace on the strings the model uses
TrimSpace(s) ==
    CASE s = " " -> ""
      [] s = " l1 " -> "l1"
      [] s = "d\n" -> "d"
      [] OTHER -> s

\* strings.TrimRight(body, "\n")
TrimRightNewline(s) == IF s = "d\n" THEN "d" ELSE s

RECURSIVE normalizeLoop(_, _)
normalizeLoop(labels, result) ==
    IF labels = <<>> THEN result
    ELSE LET trimmed == TrimSpace(Head(labels)) IN
         IF trimmed = "" \/ trimmed \in Range(result)
         THEN normalizeLoop(Tail(labels), result)
         ELSE normalizeLoop(Tail(labels), Append(result, trimmed))

normalizeLabels(labels) == normalizeLoop(labels, <<>>)

normalizeDescription(body) ==
    IF TrimSpace(body) = "" THEN <<>> ELSE <<TrimRightNewline(body)>>

descriptionsEqual(a, b) == a = b

Res(err, d, f) == [err |-> err, dir |-> d, file |-> f]

runInit(d, f, wr) ==
    LET r == Init(d, f, wr) IN Res(r.err, r.dir, r.file)

RECURSIVE addLabels(_, _, _)
\* for _, label := range labels { task.AddLabel(label) }
addLabels(t, labels, now) ==
    IF labels = <<>> THEN t
    ELSE addLabels(AddLabel(t, Head(labels), now), Tail(labels), now)

\* the identifiers the run can be given: those of GenerateUnique on the
\* stored ids (none is drawn when the ids cannot be read)
NewIDs(f) ==
    LET e == GetExistingIDs(f) IN
    IF e.err # "" THEN {""} ELSE GenerateUnique(e.ids)

\* ed is what the editor run gave: [err, fm, body], fm the parsed frontmatter
runNewWithEditor(d, f, title0, ed, id, now, wr) ==
    LET e == GetExistingIDs(f) IN
    IF e.err # "" THEN Res(e.err, d, f)
    ELSE IF ed.err # "" THEN Res(ed.err, d, f)
    ELSE
    LET fm == ed.fm
        title == IF fm.HasTitle THEN fm.Title ELSE title0
        tt == ParseTaskType(IF fm.HasType THEN fm.Type ELSE TypeTask)
        st == ParseStatus(IF fm.HasStatus THEN fm.Status ELSE StatusTodo)
        labels == IF fm.HasLabels THEN normalizeLabels(fm.Labels) ELSE <<>>
        t0 == NewTask(id, title, tt.val, now)
        t1 == IF st.val # StatusTodo THEN SetStatus(t0, st.val, now).task ELSE t0
        t2 == IF Len(labels) > 0 THEN SetLabels(t1, labels, now) ELSE t1
        description == normalizeDescription(ed.body)
        t3 == IF description # <<>>
              THEN SetDescriptionValue(t2, description, now) ELSE t2
    IN
    IF TrimSpace(title) = "" THEN Res("TitleRequired", d, f)
    ELSE IF tt.err # "" THEN Res(tt.err, d, f)
    ELSE IF st.err # "" THEN Res(st.err, d, f)
    ELSE LET a == Add(d, f, t3, wr) IN Res(a.err, d, a.file)

\* a is the parsed command line: pos the positional arguments, nflag the
\* number of flags given, description, labels and type the flag values
runNew(d, f, a, ed, id, now, wr) ==
    IF a.nflag = 0 /\ Len(a.pos) > 1 THEN Res("TooManyArguments", d, f)
    ELSE IF a.nflag = 0 /\ Len(a.pos) = 0
    THEN runNewWithEditor(d, f, "", ed, id, now, wr)
    ELSE IF Len(a.pos) < 1 THEN Res("TitleRequired", d, f)
    ELSE IF Len(a.pos) > 1 THEN Res("TooManyArguments", d, f)
    ELSE
    LET title == a.pos[1]
        tt == ParseTaskType(IF a.nflag = 0 THEN "task" ELSE a.type)
        e == GetExistingIDs(f)
        t0 == NewTask(id, title, tt.val, now)
        t1 == IF a.nflag # 0 /\ a.description # ""
              THEN SetDescription(t0, a.description, now) ELSE t0
        t2 == IF a.nflag # 0 THEN addLabels(t1, a.labels, now) ELSE t1
    IN
    IF tt.err # "" THEN Res(tt.err, d, f)
    ELSE IF e.err # "" THEN Res(e.err, d, f)
    ELSE LET r == Add(d, f, t2, wr) IN Res(r.err, d, r.file)

\* the task as runUpdate has changed it when it returns, and the error it
\* returns before the store is written ("" when it goes on to s.Update)
applyUpdate(task, a, now) ==
    LET t1 == IF a.name # "" THEN SetTitle(task, a.name, now) ELSE task
        t2 == IF a.description # ""
              THEN SetDescription(t1, a.description, now) ELSE t1
        t3 == IF Len(a.labels) > 0 THEN SetLabels(t2, a.labels, now) ELSE t2
        tt == ParseTaskType(a.type)
        t4 == IF a.type # "" /\ tt.err = ""
              THEN SetType(t3, tt.val, now).task ELSE t3
        st == ParseStatus(a.status)
        t5 == IF a.status # "" /\ st.err = ""
              THEN SetStatus(t4, st.val, now).task ELSE t4
    IN
    IF a.type # "" /\ tt.err # "" THEN [err |-> tt.err, task |-> t3]
    ELSE IF a.status # "" /\ st.err # "" THEN [err |-> st.err, task |-> t4]
    ELSE [err |-> "", task |-> t5]

runUpdateSavesFirst(d, f, a, now, wr) ==
    IF Len(a.pos) < 1 THEN Res("IDRequired", d, f)
    ELSE
    LET found == FindByID(f, a.pos[1]) IN
    IF found.err # "" THEN Res(found.err, d, f)
    ELSE IF found.found = <<>> THEN Res("NotFound", d, f)
    ELSE LET u == applyUpdate(found.found[1], a, now)
             r == Update(d, f, u.task, wr) IN
         IF u.err # "" THEN Res(u.err, d, r.file)
         ELSE Res(r.err, d, r.file)

\* a: pos the positional arguments, name, description, labels, type and
\* status the flag values ("" and <<>> when the flag is not given)
runUpdate(d, f, a, now, wr) ==
    IF Len(a.pos) < 1 THEN Res("IDRequired", d, f)
    ELSE
    LET found == FindByID(f, a.pos[1]) IN
    IF found.err # "" THEN Res(found.err, d, f)
    ELSE IF found.found = <<>> THEN Res("NotFound", d, f)
    ELSE LET u == applyUpdate(found.found[1], a, now) IN
         IF u.err # "" THEN Res(u.err, d, f)
         ELSE LET r == Update(d, f, u.task, wr) IN Res(r.err, d, r.file)

runEdit(d, f, pos, ed, now, wr) ==
    IF Len(pos) < 1 THEN Res("IDRequired", d, f)
    ELSE
    LET found == FindByID(f, pos[1]) IN
    IF found.err # "" THEN Res(found.err, d, f)
    ELSE IF found.found = <<>> THEN Res("NotFound", d, f)
    ELSE IF ed.err # "" THEN Res(ed.err, d, f)
    ELSE
    LET task == found.found[1]
        fm == ed.fm
        title == IF fm.HasTitle THEN fm.Title ELSE task.title
        tt == ParseTaskType(IF fm.HasType THEN fm.Type ELSE task.type)
        st == ParseStatus(IF fm.HasStatus THEN fm.Status ELSE task.status)
        labels == IF fm.HasLabels THEN normalizeLabels(fm.Labels)
                  ELSE task.labels
        descriptionValue == normalizeDescription(ed.body)
        t1 == IF title # task.title THEN SetTitle(task, title, now) ELSE task
        t2 == IF tt.val # t1.type THEN SetType(t1, tt.val, now).task ELSE t1
        t3 == IF st.val # t2.status
              THEN SetStatus(t2, st.val, now).task ELSE t2
        t4 == IF labels # t3.labels THEN SetLabels(t3, labels, now) ELSE t3
        t5 == IF ~descriptionsEqual(descriptionValue, t4.description)
              THEN SetDescriptionValue(t4, descriptionValue, now) ELSE t4
    IN
    IF TrimSpace(title) = "" THEN Res("TitleRequired", d, f)
    ELSE IF tt.err # "" THEN Res(tt.err, d, f)
    ELSE IF st.err # "" THEN Res(st.err, d, f)
    ELSE LET r == Update(d, f, t5, wr) IN Res(r.err, d, r.file)

\* content is the second argument or what stdin held; noteID is drawn by
\* GenerateNoteID(taskID)
runNote(d, f, pos, stdinContent, noteID, now, wr) ==
    IF Len(pos) < 1 THEN Res("IDRequired", d, f)
    ELSE
    LET content == TrimSpace(IF Len(pos) >= 2 THEN pos[2] ELSE stdinContent)
        found == FindByID(f, pos[1]) IN
    IF content = "" THEN Res("ContentRequired", d, f)
    ELSE IF found.err # "" THEN Res(found.err, d, f)
    ELSE IF found.found = <<>> THEN Res("NotFound", d, f)
    ELSE LET r == Update(d, f, AddNote(found.found[1], noteID, content, now), wr)
         IN Res(r.err, d, r.file)

updateTaskStatus(d, f, taskID, status, now, wr) ==
    LET found == FindByID(f, taskID) IN
    IF found.err # "" THEN Res(found.err, d, f)
    ELSE IF found.found = <<>> THEN Res("NotFound", d, f)
    ELSE LET s == SetStatus(found.found[1], status, now) IN
         IF s.err # "" THEN Res(s.err, d, f)
         ELSE LET r == Update(d, f, s.task, wr) IN Res(r.err, d, r.file)

runAlias(d, f, args, status, now, wr) ==
    IF Len(args) < 1 THEN Res("IDRequired", d, f)
    ELSE updateTaskStatus(d, f, args[1], status, now, wr)

runTake(d, f, args, now, wr) == runAlias(d, f, args, StatusProgress, now, wr)
runComplete(d, f, args, now, wr) == runAlias(d, f, args, StatusDone, now, wr)
runBlock(d, f, args, now, wr) == runAlias(d, f, args, StatusBlocked, now, wr)
runAbandon(d, f, args, now, wr) == runAlias(d, f, args, StatusAbandon, now, wr)

runDelete(d, f, pos, wr) ==
    IF Len(pos) < 1 THEN Res("IDRequired", d, f)
    ELSE
    LET found == FindByID(f, pos[1]) IN
    IF found.err # "" THEN Res(found.err, d, f)
    ELSE IF found.found = <<>> THEN Res("NotFound", d, f)
    ELSE LET r == Delete(d, f, pos[1], wr) IN Res(r.err, d, r.file)

runClean(d, f, wr) ==
    LET r == Clean(d, f, wr) IN
    [err |-> r.err, dir |-> d, file |-> r.file, deleted |-> r.deleted]


---------------------------------------------------------------------------
(* Command lines and runs.  U holds the sets the command lines of a        *)
(* specification are drawn from and the bounds of its runs.                *)

MaxNotes == 1
MaxClock == 2
IdsMaxTasks == 3

NoLast ==
    [op |-> "", err |-> "", id |-> "", n |-> 0, args |-> <<>>, out |-> <<>>]
NoProcs == <<>>

AllIds == Short3 \cup Long4

Fm(ht, title, hy, type, hs, status, hl, labels) ==
    [HasTitle |-> ht, Title |-> title, HasType |-> hy, Type |-> type,
     HasStatus |-> hs, Status |-> status, HasLabels |-> hl, Labels |-> labels]

FmNone == Fm(FALSE, "", FALSE, "", FALSE, "", FALSE, <<>>)

Ed(fm, body) == [err |-> "", fm |-> fm, body |-> body]

EdFailed == [err |-> "EditorFailed", fm |-> FmNone, body |-> ""]

NewArgs(pos, nflag, description, labels, type) ==
    [pos |-> pos, nflag |-> nflag, description |-> description,
     labels |-> labels, type |-> type]

UpdateArgs(pos, name, description, labels, type, status) ==
    [pos |-> pos, name |-> name, description |-> description,
     labels |-> labels, type |-> type, status |-> status]

\* how many of the five fields an update command line gives
NumFields(a) ==
    (IF a.name # "" THEN 1 ELSE 0) + (IF a.description # "" THEN 1 ELSE 0)
    + (IF Len(a.labels) > 0 THEN 1 ELSE 0) + (IF a.type # "" THEN 1 ELSE 0)
    + (IF a.status # "" THEN 1 ELSE 0)

\* a flag value as the command sees it: not given, in the closed set, or not
TypeClass(s) ==
    IF s = "" THEN "absent" ELSE IF TaskTypeIsValid(s) THEN "valid" ELSE "invalid"

StatusClass(s) ==
    IF s = "" THEN "absent" ELSE IF StatusIsValid(s) THEN "valid" ELSE "invalid"

\* the stored collection stays within the bounds of the run
Bounded(U, f) ==
    /\ Len(f.recs) <= U.maxTasks
    /\ \A i \in 1..Len(f.recs) :
          f.recs[i].notes = <<>> \/ Len(f.recs[i].notes[1]) <= U.maxNotes

\* the run ends: the directory and the file are as it left them
Step(U, op, r, id, n, args) ==
    /\ Bounded(U, r.file)
    /\ dir' = r.dir
    /\ file' = r.file
    /\ clock' \in {c \in {clock, clock + 1} : c <= U.maxClock}
    /\ last' = IF U.record
               THEN [op |-> op, err |-> r.err, id |-> id, n |-> n,
                     args |-> args, out |-> <<>>]
               ELSE NoLast
    /\ UNCHANGED <<procs, mem>>

Target(pos) == IF Len(pos) < 1 THEN "" ELSE pos[1]

DoInit(U) ==
    \E wr \in U.writes : Step(U, "init", runInit(dir, file, wr), "", 0, <<>>)

DoNew(U) ==
    \E a \in U.news, ed \in U.eds, id \in NewIDs(file), wr \in U.writes :
        Step(U, "new", runNew(dir, file, a, ed, id, clock, wr), id,
             a.nflag, a.pos)

DoUpdate(U) ==
    \E a \in U.updates, wr \in U.writes :
        Step(U, "update", runUpdate(dir, file, a, clock, wr), Target(a.pos),
             NumFields(a), <<TypeClass(a.type), StatusClass(a.status)>>)

DoEdit(U) ==
    \E pos \in U.targets, ed \in U.eds, wr \in U.writes :
        Step(U, "edit", runEdit(dir, file, pos, ed, clock, wr), Target(pos),
             0, <<TypeClass(ed.fm.Type), StatusClass(ed.fm.Status)>>)

DoNote(U) ==
    \E pos \in U.targets, c \in U.notes, sc \in U.stdin, wr \in U.writes :
    \E noteID \in GenerateNoteID(Target(pos)) :
        Step(U, "note", runNote(dir, file, pos \o c, sc, noteID, clock, wr),
             Target(pos), 0, <<>>)

DoTake(U) ==
    \E pos \in U.targets, wr \in U.writes :
        Step(U, "take", runTake(dir, file, pos, clock, wr), Target(pos),
             0, <<>>)

DoComplete(U) ==
    \E pos \in U.targets, wr \in U.writes :
        Step(U, "complete", runComplete(dir, file, pos, clock, wr),
             Target(pos), 0, <<>>)

DoBlock(U) ==
    \E pos \in U.targets, wr \in U.writes :
        Step(U, "block", runBlock(dir, file, pos, clock, wr), Target(pos),
             0, <<>>)

DoAbandon(U) ==
    \E pos \in U.targets, wr \in U.writes :
        Step(U, "abandon", runAbandon(dir, file, pos, clock, wr), Target(pos),
             0, <<>>)

DoDelete(U) ==
    \E pos \in U.targets, wr \in U.writes :
        Step(U, "delete", runDelete(dir, file, pos, wr), Target(pos), 0, <<>>)

DoClean(U) ==
    \E wr \in U.writes :
        LET r == runClean(dir, file, wr) IN
        Step(U, "clean", r, "", r.deleted, <<>>)

Init0 ==
    /\ dir = FALSE
    /\ file = NoFile
    /\ clock = 0
    /\ last = NoLast
    /\ procs = NoProcs
    /\ mem = <<>>

---------------------------------------------------------------------------
(* SpecIds: one process runs every command, one after the other, on a root *)
(* that starts uninitialized.  The command lines are the plainest ones:    *)
(* what matters here is which identifiers the tasks get.                   *)

IdsU ==
    [maxTasks |-> IdsMaxTasks, maxNotes |-> MaxNotes, maxClock |-> 0,
     record |-> FALSE,
     writes |-> {TRUE},
     news |-> {NewArgs(<<>>, 0, "", <<>>, "task"),
               NewArgs(<<"t">>, 0, "", <<>>, "task"),
               NewArgs(<<"t">>, 1, "", <<>>, "task")},
     eds |-> {Ed(Fm(TRUE, "t", FALSE, "", FALSE, "", FALSE, <<>>), "")},
     updates |-> {UpdateArgs(<<i>>, "", "", <<>>, "", "todo") : i \in AllIds},
     targets |-> {<<i>> : i \in AllIds},
     notes |-> {<<"n">>},
     stdin |-> {""}]

IdsNext ==
    \/ DoInit(IdsU)
    \/ DoNew(IdsU)
    \/ DoUpdate(IdsU)
    \/ DoEdit(IdsU)
    \/ DoNote(IdsU)
    \/ DoTake(IdsU)
    \/ DoComplete(IdsU)
    \/ DoBlock(IdsU)
    \/ DoAbandon(IdsU)
    \/ DoDelete(IdsU)
    \/ DoClean(IdsU)

SpecIds == Init0 /\ [][IdsNext]_vars

\* the stored collection, as the records of the backing file
Stored == file.recs

\* C1: every stored task has a non-empty id and no two stored tasks share
\* an id, in every state a sequence of commands reaches.
C1_UniqueIds ==
    /\ \A i \in 1..Len(Stored) : Stored[i].id # ""
    /\ \A i, j \in 1..Len(Stored) : i # j => Stored[i].id # Stored[j].id


---------------------------------------------------------------------------
(* SpecUpdate: the update and edit commands on a store that holds tasks    *)
(* the new command created, with command lines that give one field, or     *)
(* several, of which some name a type or a status outside the closed sets. *)

UpdTask1 == AddLabel(NewTask("aaa", "t", TypeTask, 0), "l1", 0)
UpdTask2 == NewTask("bbb", "t", TypeBug, 0)

UpdFiles ==
    {MarshalIndent(<<>>), MarshalIndent(<<UpdTask1>>),
     MarshalIndent(<<UpdTask2, UpdTask1>>)}

UpdU ==
    [maxTasks |-> 2, maxNotes |-> 0, maxClock |-> MaxClock,
     record |-> TRUE,
     writes |-> {TRUE},
     news |-> {},
     eds |-> {EdFailed,
              Ed(FmNone, ""),
              Ed(Fm(TRUE, " ", FALSE, "", FALSE, "", FALSE, <<>>), ""),
              Ed(Fm(TRUE, "t2", TRUE, "epic", FALSE, "", FALSE, <<>>), "d"),
              Ed(Fm(TRUE, "t2", TRUE, "bug", TRUE, "wip", TRUE, <<"l2">>), ""),
              Ed(Fm(TRUE, "t2", TRUE, "bug", TRUE, "done", TRUE,
                    <<" l1 ", "l1", " ">>), "d\n")},
     updates |-> {UpdateArgs(<<>>, "t2", "", <<>>, "", "")} \cup
                 {UpdateArgs(<<i>>, a[1], a[2], a[3], a[4], a[5]) :
                    i \in {"aaa", "zzz"},
                    a \in {<<"t2", "", <<>>, "", "">>,
                           <<"", "d", <<>>, "", "">>,
                           <<"", "", <<"l2">>, "", "">>,
                           <<"", "", <<>>, "bug", "">>,
                           <<"", "", <<>>, "", "done">>,
                           <<"", "", <<>>, "epic", "">>,
                           <<"", "", <<>>, "", "wip">>,
                           <<"t2", "", <<>>, "epic", "">>,
                           <<"", "d", <<>>, "", "wip">>,
                           <<"", "", <<"l2">>, "epic", "done">>,
                           <<"", "", <<>>, "bug", "wip">>,
                           <<"t2", "d", <<"l2">>, "bug", "wip">>,
                           <<"t2", "d", <<"l1", "l1">>, "feature", "done">>}},
     targets |-> {<<>>, <<"aaa">>, <<"zzz">>},
     notes |-> {},
     stdin |-> {}]

UpdInit ==
    /\ dir = TRUE
    /\ file \in UpdFiles
    /\ clock = 0
    /\ last = NoLast
    /\ procs = NoProcs
    /\ mem = <<>>

UpdNext ==
    \/ DoUpdate(UpdU)
    \/ DoEdit(UpdU)

SpecUpdate == UpdInit /\ [][UpdNext]_vars

---------------------------------------------------------------------------
(* SpecStore: a caller of the store API.  The root starts uninitialized or *)
(* with a backing file in either on-disk shape; the caller loads, saves,   *)
(* adds, updates, deletes, cleans and queries.  last.out is what a query   *)
(* returned, last.args what the call was given.                            *)

StoreMaxTasks == 2

JTask(id, created, updated, title, description, type, status, labels, notes) ==
    [id |-> id, created_at |-> [rfc3339 |-> created],
     updated_at |-> [rfc3339 |-> updated], title |-> title,
     description |-> description, type |-> type, status |-> status,
     labels |-> labels, notes |-> notes]

\* the records a backing file found on disk is made of
JPool ==
    {JTask("aaa", 0, 0, "t", <<>>, "task", "todo", <<<<"l1">>>>, <<<<>>>>),
     JTask("bbb", 0, 1, "t", <<"d">>, "bug", "done", <<>>, <<>>),
     JTask("ccc", 1, 1, "t2", <<>>, "feature", "abandon",
           <<<<"l1", "l2">>>>, <<<<>>>>),
     JTask("aaa", 0, 0, "t2", <<"d">>, "task", "progress", <<<<"l2">>>>,
           <<<<[id |-> <<"aaa", "-", "aaa">>, created_at |-> [rfc3339 |-> 0],
                content |-> "n"]>>>>),
     JTask("ddd", 0, 1, "t", <<>>, "epic", "wip", <<<<>>>>, <<<<>>>>)}

StoreFiles ==
    {[exists |-> TRUE, fmt |-> fmt, recs |-> recs] :
        fmt \in {"array", "jsonl"}, recs \in SeqsUpTo(JPool, StoreMaxTasks)}

\* the tasks a caller builds with the constructor and the mutators
Candidate1 ==
    SetStatus(SetDescription(AddLabel(NewTask("aaa", "t2", TypeTask, 1),
                                      "l2", 1), "d", 2),
              StatusProgress, 3).task

Candidate2 ==
    AddNote(SetStatus(NewTask("bbb", "t", TypeBug, 2), StatusBlocked, 2).task,
            <<"bbb", "-", "aaa">>, "n", 3)

Candidates == {Candidate1, Candidate2}

StoreIds == {"aaa", "bbb", "ccc", "zzz"}

Filters ==
    {[status |-> st, type |-> ty, label |-> lb] :
        st \in {<<>>, <<StatusTodo>>, <<StatusDone>>},
        ty \in {<<>>, <<TypeTask>>, <<TypeBug>>},
        lb \in {<<>>, <<"l1">>}}

StoreInit ==
    /\ \/ dir \in BOOLEAN /\ file = NoFile
       \/ dir = TRUE /\ file \in StoreFiles
    /\ clock = 0
    /\ last = NoLast
    /\ procs = NoProcs
    /\ mem = <<>>

Called(op, err, id, n, args, out) ==
    /\ last' = [op |-> op, err |-> err, id |-> id, n |-> n, args |-> args,
                out |-> out]
    /\ UNCHANGED <<clock, procs, mem>>

StInit ==
    \E wr \in BOOLEAN :
        LET r == Init(dir, file, wr) IN
        /\ dir' = r.dir
        /\ file' = r.file
        /\ Called("init", r.err, "", 0, <<>>, <<>>)

StLoad ==
    LET r == Load(file) IN
    /\ UNCHANGED dir
    /\ file' = ReadFile(file).file
    /\ Called("load", r.err, "", 0, <<>>, r.tasks)

StSave ==
    \E tasks \in SeqsUpTo(Candidates, StoreMaxTasks), wr \in BOOLEAN :
        LET r == Save(dir, file, tasks, wr) IN
        /\ file' = r.file
        /\ UNCHANGED dir
        /\ Called("save", r.err, "", 0, tasks, <<>>)

\* the caller saves what it has just loaded
StLoadSave ==
    \E wr \in BOOLEAN :
        LET l == Load(file)
            r == Save(dir, file, l.tasks, wr) IN
        /\ l.err = ""
        /\ file' = r.file
        /\ UNCHANGED dir
        /\ Called("save", r.err, "", 0, l.tasks, <<>>)

StAdd ==
    \E task \in Candidates, wr \in BOOLEAN :
        LET r == Add(dir, file, task, wr) IN
        /\ Len(r.file.recs) <= StoreMaxTasks
        /\ file' = r.file
        /\ UNCHANGED dir
        /\ Called("add", r.err, task.id, 0, <<task>>, <<>>)

StUpdate ==
    \E task \in Candidates \cup {NewTask("zzz", "t", TypeTask, 1)},
       wr \in BOOLEAN :
        LET r == Update(dir, file, task, wr) IN
        /\ file' = r.file
        /\ UNCHANGED dir
        /\ Called("update", r.err, task.id, 0, <<task>>, <<>>)

StDelete ==
    \E id \in StoreIds, wr \in BOOLEAN :
        LET r == Delete(dir, file, id, wr) IN
        /\ file' = r.file
        /\ UNCHANGED dir
        /\ Called("delete", r.err, id, 0, <<>>, <<>>)

StClean ==
    \E wr \in BOOLEAN :
        LET r == Clean(dir, file, wr) IN
        /\ file' = r.file
        /\ UNCHANGED dir
        /\ Called("clean", r.err, "", r.deleted, <<>>, <<>>)

StFindByID ==
    \E id \in StoreIds :
        LET r == FindByID(file, id) IN
        /\ UNCHANGED dir
        /\ file' = ReadFile(file).file
        /\ Called("find_by_id", r.err, id, 0, <<>>, r.found)

StGetExistingIDs ==
    LET r == GetExistingIDs(file) IN
    /\ UNCHANGED dir
    /\ file' = ReadFile(file).file
    /\ Called("get_existing_ids", r.err, "", Cardinality(r.ids), <<>>, <<>>)

StListSorted ==
    LET r == ListSorted(file) IN
    /\ UNCHANGED dir
    /\ file' = ReadFile(file).file
    /\ Called("list_sorted", r.err, "", 0, <<>>, r.tasks)

StListFiltered ==
    \E filter \in Filters :
        LET r == ListFiltered(file, filter) IN
        /\ UNCHANGED dir
        /\ file' = ReadFile(file).file
        /\ Called("list_filtered", r.err, "", 0, <<filter>>, r.tasks)

StoreNext ==
    \/ StInit
    \/ StLoad
    \/ StSave
    \/ StLoadSave
    \/ StAdd
    \/ StUpdate
    \/ StDelete
    \/ StClean
    \/ StFindByID
    \/ StGetExistingIDs
    \/ StListSorted
    \/ StListFiltered

SpecStore == StoreInit /\ [][StoreNext]_vars

\* Two tasks agree in every field, times compared by the second.
SameAtSeconds(a, b) ==
    /\ a.id = b.id
    /\ a.title = b.title
    /\ a.description = b.description
    /\ a.type = b.type
    /\ a.status = b.status
    /\ a.labels = b.labels
    /\ a.created_at \div TicksPerSecond = b.created_at \div TicksPerSecond
    /\ a.updated_at \div TicksPerSecond = b.updated_at \div TicksPerSecond
    /\ Len(a.notes) = Len(b.notes)
    /\ \A k \in 1..Len(a.notes) :
          /\ a.notes[k].id = b.notes[k].id
          /\ a.notes[k].content = b.notes[k].content
          /\ a.notes[k].created_at \div TicksPerSecond
                = b.notes[k].created_at \div TicksPerSecond

\* C2: after a successful save(tasks), load() returns the same ordered
\* sequence: same length and order, and for every task the id, title,
\* description (null distinct from a present string), type, status, labels
\* and notes are equal, the times being equal at second granularity.
C2_SaveLoadRoundTrip ==
    (last.op = "save" /\ last.err = "")
    => LET r == Load(file) IN
       /\ r.err = ""
       /\ Len(r.tasks) = Len(last.args)
       /\ \A i \in 1..Len(last.args) : SameAtSeconds(r.tasks[i], last.args[i])

\* two different tasks were saved, one with a description and one without,
\* one of them created inside a second
C2_Witness ==
    /\ last.op = "save" /\ last.err = ""
    /\ Len(last.args) = 2 /\ last.args[1] # last.args[2]
    /\ \E i \in 1..2 : last.args[i].description = <<>>
    /\ \E i \in 1..2 : last.args[i].description # <<>>
    /\ \E i \in 1..2 : last.args[i].created_at % TicksPerSecond # 0
    /\ \E i \in 1..2 : last.args[i].notes # <<>>

\* C3: after every successful save (direct, or through add, update, delete,
\* or a clean that removed something) the backing file is newline-delimited
\* with one JSON object per task, whatever format was read.
C3_SaveWritesJSONL ==
    (/\ last.op \in {"save", "add", "update", "delete", "clean"}
     /\ last.err = ""
     /\ (last.op = "clean" => last.n > 0))
    => /\ IsJSONL(file)
       /\ JSONLines(file) = Len(file.recs)
       /\ (last.op = "save" => JSONLines(file) = Len(last.args))

\* C4: load() returns the same ordered sequence of tasks whether the file
\* holds them one object per line or as one JSON array, and zero tasks
\* without error for the zero-byte file.
C4_LoadDetectsFormat ==
    (last.op = "load" /\ file.exists)
    => /\ last.err = ""
       /\ last.out = [i \in 1..Len(file.recs) |-> TaskUnmarshalJSON(file.recs[i])]

\* C6: on an initialized store, update(task) and delete(id) whose id matches
\* no stored task fail with NotFound and leave the stored collection as it
\* was, the store of zero tasks included.
C6_NotFoundLeavesStore ==
    [][(/\ last'.op \in {"update", "delete"}
        /\ Load(file).err = ""
        /\ \A i \in 1..Len(Load(file).tasks) : Load(file).tasks[i].id # last'.id)
       => (last'.err = "NotFound" /\ file' = file)]_vars

NotClosed(t) == t.status \notin {"done", "abandon"}

C9_ClosedEnums ==
    (last.op = "load" /\ last.err = "")
    => \A i \in 1..Len(last.out) :
          /\ last.out[i].type \in {"task", "bug", "feature"}
          /\ last.out[i].status \in {"todo", "progress", "blocked",
                                     "abandon", "done"}

Matches(t, flt) ==
    /\ flt.status = <<>> \/ t.status = flt.status[1]
    /\ flt.type = <<>> \/ t.type = flt.type[1]
    /\ flt.label = <<>> \/ \E k \in 1..Len(t.labels) : t.labels[k] = flt.label[1]

\* C10: list_filtered(filter) is list_sorted() restricted to the tasks that
\* satisfy every criterion that is set (status, type, label), in the same
\* relative order; with no criterion it is list_sorted().
C10_FilterIsConjunction ==
    (last.op = "list_filtered" /\ last.err = "")
    => LET flt == last.args[1]
           s == ListSorted(file) IN
       /\ s.err = ""
       /\ last.out = SelectSeq(s.tasks, LAMBDA t : Matches(t, flt))
       /\ flt = [status |-> <<>>, type |-> <<>>, label |-> <<>>]
          => last.out = s.tasks

\* two criteria are set; a stored task meets one of them only and is left
\* out, another meets both and is listed
C10_Witness ==
    /\ last.op = "list_filtered" /\ last.err = ""
    /\ last.args[1].status # <<>> /\ last.args[1].label # <<>>
    /\ last.out # <<>>
    /\ \E i \in 1..Len(Load(file).tasks) :
          LET t == Load(file).tasks[i] IN
          /\ t.status # last.args[1].status[1]
          /\ \E k \in 1..Len(t.labels) : t.labels[k] = last.args[1].label[1]

---------------------------------------------------------------------------
(* SpecRace: two processes each run Store.Add against the same root.  Add  *)
(* reads the file (Load) and later writes it (Save); nothing is held in    *)
(* between, so the other process may run between the two.                  *)

RaceProcs == {1, 2}

RaceTasks ==
    {NewTask("bbb", "t", TypeTask, 1),
     NewTask("ccc", "t2", TypeBug, 2),
     SetDescription(NewTask("ddd", "t", TypeFeature, 1), "d", 3)}

RaceFiles ==
    {NoFile,
     MarshalIndent(<<>>),
     MarshalIndent(<<NewTask("aaa", "t", TypeTask, 0)>>),
     MarshalIndent(<<NewTask("aaa", "t", TypeTask, 0), Candidate1>>)}

RaceInit ==
    /\ dir = TRUE
    /\ file \in RaceFiles
    /\ clock = 0
    /\ last = NoLast
    /\ mem = <<>>
    /\ \E t1, t2 \in RaceTasks :
          /\ t1.id # t2.id
          /\ procs = [p \in RaceProcs |->
                        [pc |-> "start", task |-> IF p = 1 THEN t1 ELSE t2,
                         tasks |-> <<>>, err |-> ""]]

\* tasks, err := s.Load()
AddLoad(p) ==
    /\ procs[p].pc = "start"
    /\ LET l == Load(file) IN
       procs' = [procs EXCEPT ![p] =
                    IF l.err # ""
                    THEN [@ EXCEPT !.pc = "done", !.err = l.err]
                    ELSE [@ EXCEPT !.pc = "loaded", !.tasks = l.tasks]]
    /\ UNCHANGED <<dir, file, clock, last, mem>>

\* return s.Save(append(tasks, *task))
AddSave(p) ==
    /\ procs[p].pc = "loaded"
    /\ \E wr \in BOOLEAN :
          LET r == Save(dir, file, Append(procs[p].tasks, procs[p].task), wr) IN
          /\ file' = r.file
          /\ procs' = [procs EXCEPT ![p] = [@ EXCEPT !.pc = "done",
                                                      !.err = r.err]]
    /\ UNCHANGED <<dir, clock, last, mem>>

RaceNext ==
    \E p \in RaceProcs :
        \/ AddLoad(p)
        \/ AddSave(p)

SpecRace == RaceInit /\ [][RaceNext]_vars

IdsOf(tasks) == [i \in 1..Len(tasks) |-> tasks[i].id]

\* both adds returned success and each loaded before the other saved
BothLoadedFirst ==
    /\ \A p \in RaceProcs : procs[p].pc = "done" /\ procs[p].err = ""
    /\ \A p, q \in RaceProcs :
          p # q => \A i \in 1..Len(procs[p].tasks) :
                      procs[p].tasks[i].id # procs[q].task.id

\* C5: when two processes add to the same initialized store and both load
\* before either saves, both adds return success and the stored collection
\* holds only one of the two added tasks: what the last writer loaded plus
\* its own task, nothing merged.
C5_LastWriterWins ==
    BothLoadedFirst
    => LET stored == Load(file).tasks IN
       /\ Cardinality({i \in 1..Len(stored) :
                         \E p \in RaceProcs : stored[i].id = procs[p].task.id}) = 1
       /\ \E p \in RaceProcs :
             IdsOf(stored) = IdsOf(Append(procs[p].tasks, procs[p].task))

\* the update of process 1 is lost: both returned success, the store held
\* tasks before, and only the task of process 2 was added to them
C5_Witness ==
    /\ BothLoadedFirst
    /\ Len(Stored) >= 2
    /\ \A i \in 1..Len(Stored) : Stored[i].id # procs[1].task.id
    /\ \E i \in 1..Len(Stored) : Stored[i].id = procs[2].task.id

---------------------------------------------------------------------------
(* Listing, the uninitialized root and init, checked under SpecStore.      *)

Occurrences(seq, t) == Cardinality({i \in 1..Len(seq) : seq[i] = t})

\* C11: list_sorted() returns a permutation of what load() returns, in
\* which updated_at never increases from one element to the next.
C11_SortedNewestFirst ==
    (last.op = "list_sorted" /\ last.err = "")
    => LET loaded == Load(file).tasks
           out == last.out IN
       /\ Len(out) = Len(loaded)
       /\ \A t \in Range(loaded) \cup Range(out) :
             Occurrences(out, t) = Occurrences(loaded, t)
       /\ \A i \in 1..(Len(out) - 1) :
             out[i].updated_at >= out[i + 1].updated_at

\* the file holds an older task before a newer one and the listing
\* returns them the other way round
C11_Witness ==
    /\ last.op = "list_sorted" /\ last.err = ""
    /\ Len(last.out) >= 2
    /\ last.out[1].updated_at > last.out[2].updated_at
    /\ Load(file).tasks[1].updated_at < Load(file).tasks[2].updated_at
    /\ last.out[1] = Load(file).tasks[2]

\* C12: while the backing file is absent, load, find_by_id, add, update,
\* delete, get_existing_ids, list_sorted, list_filtered and clean each fail
\* with NotInitialized and create neither the directory nor the file.
C12_AbsentFileNotInitialized ==
    [][(/\ ~file.exists
        /\ last'.op \in {"load", "find_by_id", "add", "update", "delete",
                         "get_existing_ids", "list_sorted", "list_filtered",
                         "clean"})
       => (last'.err = "NotInitialized" /\ dir' = dir /\ file' = file)]_vars

\* add was refused on a root whose directory exists but whose file does not
C12_Witness ==
    /\ last.op = "add" /\ last.err = "NotInitialized"
    /\ dir /\ ~file.exists

\* C13: init() on a root whose .task directory exists fails with
\* AlreadyInitialized and leaves the directory and the backing file as they
\* were, so load returns afterwards what it returned before.
C13_InitAlreadyInitialized ==
    [][(last'.op = "init" /\ dir)
       => /\ last'.err = "AlreadyInitialized"
          /\ dir' = dir
          /\ file' = file
          /\ Load(file') = Load(file)]_vars

\* init was refused on a store that holds tasks, and they are still loaded
C13_Witness ==
    /\ last.op = "init" /\ last.err = "AlreadyInitialized"
    /\ Load(file).err = ""
    /\ Len(Load(file).tasks) >= 1

\* C14: a successful init() starts from a root that is not initialized and
\* leaves one that is, on which load() succeeds with zero tasks.
C14_InitThenEmptyLoad ==
    [][(last'.op = "init" /\ last'.err = "")
       => /\ ~IsInitialized(dir, file)
          /\ IsInitialized(dir', file')
          /\ Load(file') = [err |-> "", tasks |-> <<>>]]_vars

\* init has just succeeded
C14_Witness ==
    /\ last.op = "init" /\ last.err = ""
    /\ dir /\ IsInitialized(dir, file)
    /\ Load(file).err = ""

\* the file of zero bytes: no line, no JSON value
ZeroByteFile == [exists |-> TRUE, fmt |-> "jsonl", recs |-> <<>>]

\* C15: a successful init() leaves the backing file zero bytes long, not
\* the text of an empty JSON array.
C15_InitWritesEmptyFile ==
    (last.op = "init" /\ last.err = "") => file = ZeroByteFile

\* C16: when init() has created the directory and the write of the backing
\* file fails, init returns an error, the directory is gone again and a
\* later init is not refused as AlreadyInitialized.
C16_InitRollsBack ==
    [][(last'.op = "init" /\ ~dir /\ last'.err # "")
       => /\ ~dir'
          /\ ~file'.exists
          /\ \A wr \in BOOLEAN :
                Init(dir', file', wr).err # "AlreadyInitialized"]_vars

\* the write failed during init on a root without directory
C16_Witness ==
    /\ last.op = "init" /\ last.err = "WriteError"
    /\ ~dir /\ ~file.exists

---------------------------------------------------------------------------
(* SpecEntity: a caller of package model builds one task and mutates it,   *)
(* the clock advancing in between; it also encodes the task as JSON and    *)
(* decodes it again, which is what a save and a load do to a task.         *)
(* last.args is the value the mutator was given.                           *)

EntMaxClock == 2
EntMaxNotes == 1

EntInit ==
    /\ dir = TRUE
    /\ file = MarshalIndent(<<>>)
    /\ clock = 0
    /\ last = NoLast
    /\ procs = NoProcs
    /\ mem = <<>>

Mutated(op, err, args, task) ==
    /\ mem' = <<task>>
    /\ last' = [op |-> op, err |-> err, id |-> task.id, n |-> 0,
                args |-> args, out |-> <<>>]
    /\ UNCHANGED <<dir, file, clock, procs>>

EntTick ==
    /\ clock < EntMaxClock
    /\ clock' = clock + 1
    /\ UNCHANGED <<dir, file, last, procs, mem>>

EntNewTask ==
    /\ mem = <<>>
    /\ Mutated("new", "", <<TypeTask>>, NewTask("aaa", "t", TypeTask, clock))

EntSetTitle ==
    /\ mem # <<>>
    /\ Mutated("set_title", "", <<"t2">>, SetTitle(mem[1], "t2", clock))

EntSetDescription ==
    /\ mem # <<>>
    /\ Mutated("set_description", "", <<"d">>,
               SetDescription(mem[1], "d", clock))

EntAddLabel ==
    /\ mem # <<>>
    /\ Mutated("add_label", "", <<"l1">>, AddLabel(mem[1], "l1", clock))

EntSetLabels ==
    /\ mem # <<>>
    /\ Mutated("set_labels", "", <<<<"l2">>>>, SetLabels(mem[1], <<"l2">>, clock))

EntSetStatus ==
    /\ mem # <<>>
    /\ \E status \in {StatusDone, "wip"} :
          LET r == SetStatus(mem[1], status, clock) IN
          Mutated("set_status", r.err, <<status>>, r.task)

EntSetType ==
    /\ mem # <<>>
    /\ \E taskType \in {TypeBug, "epic"} :
          LET r == SetType(mem[1], taskType, clock) IN
          Mutated("set_type", r.err, <<taskType>>, r.task)

EntAddNote ==
    /\ mem # <<>>
    /\ Len(mem[1].notes) < EntMaxNotes
    /\ Mutated("add_note", "", <<"n">>,
               AddNote(mem[1], <<mem[1].id, "-", "aaa">>, "n", clock))

\* json.Marshal(task) and json.Unmarshal of the result
EntMarshalUnmarshal ==
    /\ mem # <<>>
    /\ Mutated("save_load", "", <<>>, TaskUnmarshalJSON(TaskMarshalJSON(mem[1])))

EntNext ==
    \/ EntTick
    \/ EntNewTask
    \/ EntSetTitle
    \/ EntSetDescription
    \/ EntAddLabel
    \/ EntSetLabels
    \/ EntSetStatus
    \/ EntSetType
    \/ EntAddNote
    \/ EntMarshalUnmarshal

SpecEntity == EntInit /\ [][EntNext]_vars

\* C17: generate_unique(existing) never returns a member of existing,
\* whatever the random source yields; existing is the set of stored ids.
C17_NeverReturnsMember ==
    LET e == GetExistingIDs(file) IN
    e.err = "" => GenerateUnique(e.ids) \cap e.ids = {}

\* C18: set_status with a value outside {todo, progress, blocked, abandon,
\* done} and set_type with a value outside {task, bug, feature} return an
\* error and leave the task, its updated_at included, as it was.
C18_RejectedMutationUntouched ==
    [][(/\ mem # <<>>
        /\ \/ /\ last'.op = "set_status"
              /\ last'.args[1] \notin {"todo", "progress", "blocked",
                                       "abandon", "done"}
           \/ /\ last'.op = "set_type"
              /\ last'.args[1] \notin {"task", "bug", "feature"})
       => (last'.err # "" /\ mem' = mem)]_vars

\* an invalid status was refused at a time later than the task's last change
C18_Witness ==
    /\ mem # <<>>
    /\ last.op = "set_status" /\ last.err = "InvalidEnum"
    /\ last.args = <<"wip">>
    /\ mem[1].updated_at < clock

\* C19: every task has updated_at >= created_at, after construction, after
\* any sequence of mutators and after encoding and decoding.
C19_UpdatedNotBeforeCreated ==
    mem # <<>> => mem[1].updated_at >= mem[1].created_at

\* a task changed after its creation, holding a note, has been through an
\* encoding and a decoding
C19_Witness ==
    /\ mem # <<>>
    /\ last.op = "save_load"
    /\ mem[1].updated_at > mem[1].created_at
    /\ mem[1].notes # <<>>
    /\ mem[1].labels # <<>>

\* C20: no stored task has the same label twice, whatever new, update and
\* edit commands ran.
C20_NoDuplicateLabels ==
    \A i \in 1..Len(Stored) :
        Stored[i].labels # <<>>
        => \A j, k \in 1..Len(Stored[i].labels[1]) :
              j # k => Stored[i].labels[1][j] # Stored[i].labels[1][k]

---------------------------------------------------------------------------
(* SpecTitle: new, update and edit commands with titles of every kind,     *)
(* the empty string included.                                              *)

TitleMaxTasks == 2

TitleU ==
    [maxTasks |-> TitleMaxTasks, maxNotes |-> 0, maxClock |-> 0,
     record |-> TRUE,
     writes |-> {TRUE},
     news |-> {NewArgs(<<>>, 0, "", <<>>, "task"),
               NewArgs(<<"">>, 0, "", <<>>, "task"),
               NewArgs(<<"t">>, 0, "", <<>>, "task"),
               NewArgs(<<"">>, 1, "d", <<>>, "bug"),
               NewArgs(<<"t2">>, 1, "", <<"l1">>, "feature")},
     eds |-> {EdFailed,
              Ed(Fm(TRUE, "", FALSE, "", FALSE, "", FALSE, <<>>), ""),
              Ed(Fm(TRUE, " ", FALSE, "", FALSE, "", FALSE, <<>>), ""),
              Ed(Fm(TRUE, "t2", TRUE, "bug", FALSE, "", FALSE, <<>>), "d")},
     updates |-> {UpdateArgs(<<"aaa">>, a, "", <<>>, "", s) :
                    a \in {"", "t2"}, s \in {"", "done"}},
     targets |-> {<<"aaa">>, <<"zzz">>},
     notes |-> {},
     stdin |-> {}]

TitleNext ==
    \/ DoNew(TitleU)
    \/ DoUpdate(TitleU)
    \/ DoEdit(TitleU)

SpecTitle == UpdInit /\ [][TitleNext]_vars

\* C21: every task that new, update and edit commands leave in the store
\* has a non-empty title, whatever title argument they were given.
C21_NonEmptyTitle ==
    \A i \in 1..Len(Stored) : Stored[i].title # ""

\* C22: a successful update keeps every label the task had before it (an
\* update without -l does not touch the labels, so this speaks of the
\* updates that give one or more -l flags, which are to add their labels).
C22_UpdateKeepsLabels ==
    [][(last'.op = "update" /\ last'.err = "")
       => \A i \in 1..Len(file.recs) :
             (file.recs[i].id = last'.id /\ file.recs[i].labels # <<>>)
             => \A k \in 1..Len(file.recs[i].labels[1]) :
                   /\ file'.recs[i].id = last'.id
                   /\ file'.recs[i].labels # <<>>
                   /\ \E m \in 1..Len(file'.recs[i].labels[1]) :
                         file'.recs[i].labels[1][m] = file.recs[i].labels[1][k]]_vars

\* C23: when no stored task is done or abandoned, clean() returns 0 and
\* writes nothing: the backing file is what it was, content and format; so
\* a clean() right after a successful clean() returns 0 and changes nothing.
C23_CleanWithoutClosedWritesNothing ==
    [][(/\ last'.op = "clean"
        /\ \/ /\ Load(file).err = ""
              /\ \A i \in 1..Len(Load(file).tasks) : NotClosed(Load(file).tasks[i])
           \/ last.op = "clean" /\ last.err = "")
       => (last'.err = "" /\ last'.n = 0 /\ file' = file)]_vars

\* clean returned 0 on a store that holds two tasks, neither closed
C23_Witness ==
    /\ last.op = "clean" /\ last.err = "" /\ last.n = 0
    /\ Len(Stored) >= 2
    /\ Stored[1].status # Stored[2].status
    /\ \A i \in 1..Len(Stored) : Stored[i].status \notin {"done", "abandon"}

---------------------------------------------------------------------------
(* SpecSort: listings of a store that holds maxInsertion + 1 tasks, all    *)
(* but a few of them updated in the same second.                           *)

SortLen == maxInsertion + 1

SortIds ==
    <<"a01", "a02", "a03", "a04", "a05", "a06", "a07", "a08", "a09", "a10",
      "a11", "a12", "a13">>

\* the file whose tasks at the positions in newer were updated one second
\* after the others
SortFile(newer) ==
    [exists |-> TRUE, fmt |-> "array",
     recs |-> [i \in 1..SortLen |->
                 JTask(SortIds[i], 0, IF i \in newer THEN 1 ELSE 0, "t", <<>>,
                       IF i % 2 = 0 THEN "task" ELSE "bug", "todo",
                       <<<<"l1">>>>, <<<<>>>>)]]

SortInit ==
    /\ dir = TRUE
    /\ \E newer \in SUBSET (1..SortLen) :
          Cardinality(newer) <= 2 /\ file = SortFile(newer)
    /\ clock = 0
    /\ last = NoLast
    /\ procs = NoProcs
    /\ mem = <<>>

SortNext ==
    \/ StListSorted
    \/ StListFiltered

SpecSort == SortInit /\ [][SortNext]_vars

\* where the task with that id stands in a sequence of distinct ids
PositionOf(seq, id) == CHOOSE i \in 1..Len(seq) : seq[i].id = id

\* C24: list_sorted() is stable: two tasks with equal updated_at stand in
\* the result in the order they have in the stored collection.
C24_StableSort ==
    (last.op = "list_sorted" /\ last.err = "")
    => LET loaded == Load(file).tasks IN
       \A i, j \in 1..Len(loaded) :
          (i < j /\ loaded[i].updated_at = loaded[j].updated_at)
          => PositionOf(last.out, loaded[i].id) < PositionOf(last.out, loaded[j].id)

C26_RepeatedLabelStamps ==
    [][(/\ mem # <<>>
        /\ clock' = clock
        /\ last'.op = "add_label"
        /\ \E k \in 1..Len(mem[1].labels) : mem[1].labels[k] = last'.args[1])
       => /\ mem'[1].labels = mem[1].labels
          /\ mem'[1].updated_at = clock]_vars

---------------------------------------------------------------------------
(* SpecGen: one call of GenerateUnique, attempt by attempt.  procs[1] is   *)
(* the call: the attempts made, the 4-character generations made, what the *)
(* random source gave last (drawn), and what the call returned.            *)

RandErr == [err |-> "RandomSource", id |-> ""]

\* what one call of generateWithLength(length) can return
Drawn(length) ==
    {[err |-> "", id |-> x] : x \in generateWithLength(length)} \cup {RandErr}

GenStart(existing) ==
    [pc |-> "loop", existing |-> existing, attempts |-> 0, long |-> 0,
     drawn |-> <<>>, id |-> "", err |-> ""]

GenStepOneMore(g, o) ==
    IF g.attempts <= maxAttempts
    THEN IF o.err # ""
         THEN [g EXCEPT !.pc = "done", !.attempts = @ + 1, !.drawn = <<o>>,
                        !.err = o.err]
         ELSE IF o.id \notin g.existing
         THEN [g EXCEPT !.pc = "done", !.attempts = @ + 1, !.drawn = <<o>>,
                        !.id = o.id]
         ELSE [g EXCEPT !.attempts = @ + 1, !.drawn = <<o>>]
    ELSE [g EXCEPT !.pc = "done", !.long = @ + 1, !.drawn = <<o>>,
                   !.id = o.id, !.err = o.err]

\* one turn of the loop while i < maxAttempts, the fallback after it; o is
\* what the random source gives to this generation
GenStep(g, o) ==
    IF g.attempts < maxAttempts
    THEN IF o.err # ""
         THEN [g EXCEPT !.pc = "done", !.attempts = @ + 1, !.drawn = <<o>>,
                        !.err = o.err]
         ELSE IF o.id \notin g.existing
         THEN [g EXCEPT !.pc = "done", !.attempts = @ + 1, !.drawn = <<o>>,
                        !.id = o.id]
         ELSE [g EXCEPT !.attempts = @ + 1, !.drawn = <<o>>]
    ELSE [g EXCEPT !.pc = "done", !.long = @ + 1, !.drawn = <<o>>,
                   !.id = o.id, !.err = o.err]

GenInit ==
    /\ dir = TRUE
    /\ file = MarshalIndent(<<>>)
    /\ clock = 0
    /\ last = NoLast
    /\ mem = <<>>
    /\ \E existing \in SUBSET (generateWithLength(3) \cup generateWithLength(4)) :
          procs = <<GenStart(existing)>>

\* id, err := Generate() and what follows it inside the loop
GenAttempt ==
    /\ procs[1].pc = "loop"
    /\ procs[1].attempts < maxAttempts
    /\ \E o \in Drawn(3) : procs' = <<GenStep(procs[1], o)>>
    /\ UNCHANGED <<dir, file, clock, last, mem>>

\* return generateWithLength(4)
GenFallback ==
    /\ procs[1].pc = "loop"
    /\ procs[1].attempts >= maxAttempts
    /\ \E o \in Drawn(4) : procs' = <<GenStep(procs[1], o)>>
    /\ UNCHANGED <<dir, file, clock, last, mem>>

GenNext ==
    \/ GenAttempt
    \/ GenFallback

\* the call keeps running until it returns
SpecGen == GenInit /\ [][GenNext]_vars /\ WF_vars(GenNext)

GenSafe ==
    LET g == procs[1] IN
    /\ g.attempts <= 100
    /\ g.long <= 1
    /\ g.long = 1 => g.attempts = 100 /\ g.pc = "done"
    /\ g.pc = "loop" => g.id = "" /\ g.err = ""
    /\ (g.pc = "loop" /\ g.drawn # <<>>) => g.drawn[1].id \in g.existing
    /\ (g.pc = "done" /\ g.err # "") => g.id = "" /\ g.drawn = <<RandErr>>
    /\ (g.pc = "done" /\ g.err = "")
       => /\ g.id = g.drawn[1].id
          /\ g.long = 0 => g.id \notin g.existing /\ g.id \in generateWithLength(3)
          /\ g.long = 1 => g.id \in generateWithLength(4)
          /\ g.id \in GenerateUnique(g.existing)

\* C27: generate_unique(existing) always returns: it makes at most 100
\* three-character attempts and returns the first that is not in existing;
\* when all 100 are in existing it makes exactly one 4-character generation
\* and returns; a failure of the random source ends the call at once with
\* that error.
C27_GenerateUniqueTerminates ==
    /\ []GenSafe
    /\ <>(procs[1].pc = "done")

\* all 100 attempts were members of existing and the call returned the
\* 4-character identifier
C27_Witness ==
    /\ procs # <<>>
    /\ procs[1].pc = "done" /\ procs[1].err = ""
    /\ procs[1].attempts = 100 /\ procs[1].long = 1
    /\ procs[1].id \in generateWithLength(4)

DistinctIds(tasks) ==
    \A i, j \in 1..Len(tasks) : i # j => tasks[i].id # tasks[j].id

---------------------------------------------------------------------------
(* SpecQuery: a caller queries the store, keeps the task that FindByID     *)
(* returned (a pointer into the slice Load built), changes it in memory    *)
(* and may hand it to Update.                                              *)

QFindByID ==
    \E id \in StoreIds :
        LET r == FindByID(file, id) IN
        /\ UNCHANGED <<dir, clock, procs>>
        /\ file' = ReadFile(file).file
        /\ mem' = r.found
        /\ last' = [op |-> "find_by_id", err |-> r.err, id |-> id, n |-> 0,
                    args |-> <<>>, out |-> r.found]

\* task.SetTitle, task.SetStatus on the task found: nothing but memory
QMutate ==
    /\ mem # <<>>
    /\ \E task \in {SetTitle(mem[1], "t3", clock),
                    SetStatus(mem[1], StatusBlocked, clock).task} :
          /\ mem' = <<task>>
          /\ last' = [op |-> "mutate", err |-> "", id |-> task.id, n |-> 0,
                      args |-> <<>>, out |-> <<>>]
    /\ UNCHANGED <<dir, file, clock, procs>>

QUpdate ==
    /\ mem # <<>>
    /\ \E wr \in BOOLEAN :
          LET r == Update(dir, file, mem[1], wr) IN
          /\ file' = r.file
          /\ last' = [op |-> "update", err |-> r.err, id |-> mem[1].id, n |-> 0,
                      args |-> <<mem[1]>>, out |-> <<>>]
    /\ UNCHANGED <<dir, clock, procs, mem>>

QueryNext ==
    \/ StLoad
    \/ StGetExistingIDs
    \/ StListSorted
    \/ StListFiltered
    \/ QFindByID
    \/ QMutate
    \/ QUpdate

SpecQuery == StoreInit /\ [][QueryNext]_vars

\* C29: load, find_by_id, get_existing_ids, list_sorted and list_filtered
\* never write: directory and backing file, content and format, are after
\* the call what they were before it; and a change made to the task that
\* find_by_id returned leaves the store as it was until update is called.
C29_QueriesNeverWrite ==
    [][(last'.op \in {"load", "find_by_id", "get_existing_ids", "list_sorted",
                      "list_filtered", "mutate"})
       => (file' = file /\ dir' = dir)]_vars

\* the task found was changed in memory and the store still holds it as it
\* was found
C29_Witness ==
    /\ last.op = "mutate"
    /\ mem # <<>>
    /\ FindByID(file, mem[1].id).found # <<>>
    /\ FindByID(file, mem[1].id).found[1].title # "t3"
    /\ mem[1].title = "t3"
    /\ file.fmt = "array"

\* C30: init() fails with AlreadyInitialized only where is_initialized()
\* is true, so init never reports already-initialized on a root where
\* load reports not-initialized.
C30_AlreadyInitializedOnlyIfInitialized ==
    (last.op = "init" /\ last.err = "AlreadyInitialized")
    => /\ IsInitialized(dir, file)
       /\ Load(file).err # "NotInitialized"

=============================================================================
